---- MODULE Spec2Model ----
(***************************************************************************)
(* A model of the tree builder of package gtree (src/gtree/builder.go):   *)
(* Build links a flat list of records into a forest by key, applies the   *)
(* orphan strategy, and sorts every sibling group when a comparator is    *)
(* configured.  A record instance is identified by its position in the    *)
(* input list; its Children field is children[i], a list of positions.    *)
(***************************************************************************)
EXTENDS Integers, Sequences, FiniteSets, TLC

\* ------------------------------------------------------------------ bounds
\* Longest input list.  A list of n records has at most n distinct keys, so
\* the keys are drawn from 1..MaxLen; 0 is a parent key no record carries.
MaxLen == 3
\* Number of Build calls made on the same record instances.
MaxBuilds == 2
\* Longest input list of the sorting runs (SpecSort), whose records are of the
\* tests' node type.
MaxSortLen == 4
\* Query runs (SpecQuery): longest input of one record per key.
MaxDeepLen == 5
\* Concurrent runs: longest input of a call over its own records
\* (SpecDisjoint), longest input two calls share (SpecShared).
MaxConcLen == 2
MaxSharedLen == 3
\* SliceGroup runs (SpecSlice): longest slice, largest element, and the
\* width in bits of the model's int (Go's int, scaled down).
MaxSliceLen == 4
MaxElem == 2
IntBits == 5
\* ghttp runs (SpecHTTP): largest timeout (in seconds), largest Retry, and
\* the number of requests made through one client.
MaxTimeout == 4
MaxRetry == 2
MaxRequests == 2
\* Comparator runs (SpecCompare): longest component list of a composite,
\* largest ID and Order magnitude, longest Name.
MaxComps == 2
MaxField == 1
MaxNameLen == 1

Keys == 1..MaxLen
ParentKeys == 0..MaxLen

\* ------------------------------------------------- OrphanStrategy (iota)
IgnoreOrphans == 0
CollectOrphans == 1
ErrorOnOrphans == 2
Strategies == {IgnoreOrphans, CollectOrphans, ErrorOnOrphans}

\* The comparators a builder of this model is configured with: none (nil),
\* or IDComparator over GetID, which for the record type of the package's
\* tests returns the ID field, the field GetKey returns too.
Comparators == {"nil", "ID"}

\* A record as the builder sees it: GetKey, GetParentKey, IsRoot.
NodeRecords == [key : Keys, parentKey : ParentKeys, isRoot : BOOLEAN]

VARIABLES
    nodes,           \* the caller's input list of record instances
    children,        \* children[i]: the Children field of record instance i
    orphanStrategy,  \* TreeBuilder.orphanStrategy
    comparator,      \* TreeBuilder.comparator
    roots,           \* the forest returned by the last Build
    errCalls,        \* the errorHandler invocations of the last Build: <<nodeKey, parentKey>>
    builds,          \* number of Build calls made so far
    composite,       \* CompositeComparator.comparators of a comparator under test
    operands,        \* the two records <<a, b>> handed to its Compare
    cmpResult,       \* <<r>> once Compare returned r, <<>> before the call
    levels,          \* <<m>> once GetNodesByLevel returned m for the current forest
    maxLevel,        \* <<d>> once GetMaxLevel returned d for the current forest
    keyIndex,        \* <<m>> when the last build was a BuildWithMap that returned index m
    procs,           \* procs[p]: the locals of concurrent Build call p
    slice,           \* the slice handed to SliceGroup
    groupSize,       \* the groupSize handed to SliceGroup
    groups,          \* <<g>> once SliceGroup returned g, <<>> before the call
    client,          \* a ghttp Client: Timeout, Retry, httpClient
    sent             \* the requests made through client, oldest first

treeVars == <<nodes, children, orphanStrategy, comparator, roots, errCalls, builds>>
cmpVars == <<composite, operands, cmpResult>>
queryVars == <<levels, maxLevel, keyIndex>>
sliceVars == <<slice, groupSize, groups>>
httpVars == <<client, sent>>

vars == <<treeVars, cmpVars, queryVars, procs, sliceVars, httpVars>>

\* ----------------------------------------------------------- comparators
\* IDComparator.Compare
IDCompare(a, b) ==
    IF a.key < b.key THEN -1
    ELSE IF a.key > b.key THEN 1
    ELSE 0

\* Go's string order, on names as lists of byte values: x < y.
StrLess(x, y) ==
    \E k \in 1..(Len(x) + 1) :
        /\ \A l \in 1..(k - 1) : l <= Len(y) /\ x[l] = y[l]
        /\ k <= Len(y)
        /\ (k > Len(x) \/ x[k] < y[k])

\* NameComparator.Compare
NameCompare(a, b) ==
    IF StrLess(a.name, b.name) THEN -1
    ELSE IF StrLess(b.name, a.name) THEN 1
    ELSE 0

\* An order comparison by subtraction: the sign is right, the magnitude is
\* the distance.
OrderCompare_BySubtraction(a, b) == a.order - b.order

\* OrderComparator.Compare
OrderCompare(a, b) ==
    IF a.order < b.order THEN -1
    ELSE IF a.order > b.order THEN 1
    ELSE 0

\* comp.Compare(a, b) for a built-in comparator comp
ComponentCompare(comp, a, b) ==
    CASE comp = "ID" -> IDCompare(a, b)
      [] comp = "Name" -> NameCompare(a, b)
      [] comp = "Order" -> OrderCompare(a, b)

\* The loop of CompositeComparator.Compare from component k on.
RECURSIVE CompositeFrom(_, _, _, _)
CompositeFrom(comps, a, b, k) ==
    IF k > Len(comps) THEN 0
    ELSE LET r == ComponentCompare(comps[k], a, b)
         IN  IF r # 0 THEN r ELSE CompositeFrom(comps, a, b, k + 1)

\* A composite that keeps looping after a nonzero result: the last nonzero
\* component decides.
CompositeCompare_LastNonzero(comps, a, b) ==
    LET Last[k \in 0..Len(comps)] ==
            IF k = 0 THEN 0
            ELSE LET r == ComponentCompare(comps[k], a, b)
                 IN  IF r # 0 THEN r ELSE Last[k - 1]
    IN  Last[Len(comps)]

\* CompositeComparator.Compare
CompositeCompare(comps, a, b) == CompositeFrom(comps, a, b, 1)

\* b.comparator.Compare(a, b) for the configured comparator
Compare(cmp, a, b) ==
    IF cmp = "ID" THEN IDCompare(a, b) ELSE 0

\* ------------------------------------------------------------------ Build
\* An index in which the first record of a key stays.
NodeMap_FirstWins(ns) ==
    [k \in {ns[i].key : i \in DOMAIN ns} |->
        CHOOSE i \in DOMAIN ns :
            /\ ns[i].key = k
            /\ \A j \in DOMAIN ns : ns[j].key = k => j >= i]

\* The key index of Build's first pass: a later record replaces an earlier
\* one with the same key.
NodeMap(ns) ==
    [k \in {ns[i].key : i \in DOMAIN ns} |->
        CHOOSE i \in DOMAIN ns :
            /\ ns[i].key = k
            /\ \A j \in DOMAIN ns : ns[j].key = k => j <= i]

\* handleOrphanNode variants, each with one branch changed.
\* Ignore makes no handler invocation.
handleOrphanNode_IgnoreSilent(ns, strategy, st, i, parentKey) ==
    CASE strategy = CollectOrphans ->
            [st EXCEPT !.children[i] = <<>>, !.roots = Append(@, i)]
      [] strategy = ErrorOnOrphans ->
            [st EXCEPT !.calls = Append(@, <<ns[i].key, parentKey>>)]
      [] OTHER -> st

\* Collect resets the orphan's children and does not append it to the roots.
handleOrphanNode_CollectDrops(ns, strategy, st, i, parentKey) ==
    CASE strategy = CollectOrphans ->
            [st EXCEPT !.children[i] = <<>>]
      [] strategy = ErrorOnOrphans ->
            [st EXCEPT !.calls = Append(@, <<ns[i].key, parentKey>>)]
      [] strategy = IgnoreOrphans ->
            [st EXCEPT !.calls = Append(@, <<ns[i].key, parentKey>>)]
      [] OTHER -> st

\* Collect invokes the handler too.
handleOrphanNode_CollectCalls(ns, strategy, st, i, parentKey) ==
    CASE strategy = CollectOrphans ->
            [st EXCEPT !.children[i] = <<>>, !.roots = Append(@, i),
                       !.calls = Append(@, <<ns[i].key, parentKey>>)]
      [] strategy = ErrorOnOrphans ->
            [st EXCEPT !.calls = Append(@, <<ns[i].key, parentKey>>)]
      [] strategy = IgnoreOrphans ->
            [st EXCEPT !.calls = Append(@, <<ns[i].key, parentKey>>)]
      [] OTHER -> st

\* Error makes no handler invocation.
handleOrphanNode_ErrorSilent(ns, strategy, st, i, parentKey) ==
    CASE strategy = CollectOrphans ->
            [st EXCEPT !.children[i] = <<>>, !.roots = Append(@, i)]
      [] strategy = IgnoreOrphans ->
            [st EXCEPT !.calls = Append(@, <<ns[i].key, parentKey>>)]
      [] OTHER -> st

\* handleOrphanNode: st is the builder's view [children, roots, calls].
handleOrphanNode(ns, strategy, st, i, parentKey) ==
    CASE strategy = CollectOrphans ->
            [st EXCEPT !.children[i] = <<>>, !.roots = Append(@, i)]
      [] strategy = ErrorOnOrphans ->
            [st EXCEPT !.calls = Append(@, <<ns[i].key, parentKey>>)]
      [] strategy = IgnoreOrphans ->
            [st EXCEPT !.calls = Append(@, <<ns[i].key, parentKey>>)]
      [] OTHER -> st

\* LinkStep variants.
\* A root is appended to the roots and, its parent key being in the index,
\* linked under that parent as well (an if where the code has an else).
LinkStep_RootAlsoLinked(ns, strategy, nodeMap, st, i) ==
    LET parentKey == ns[i].parentKey
        asRoot == IF ns[i].isRoot
                  THEN [st EXCEPT !.children[i] = <<>>, !.roots = Append(@, i)]
                  ELSE st
    IN  IF parentKey \in DOMAIN nodeMap
        THEN LET parent == nodeMap[parentKey]
                 reset == [asRoot.children EXCEPT ![i] = <<>>]
             IN  [asRoot EXCEPT !.children = [reset EXCEPT ![parent] = Append(reset[parent], i)]]
        ELSE IF ns[i].isRoot THEN asRoot
        ELSE handleOrphanNode(ns, strategy, st, i, parentKey)

\* A child is put at the front of its parent's children list.
LinkStep_Prepend(ns, strategy, nodeMap, st, i) ==
    IF ns[i].isRoot
    THEN [st EXCEPT !.children[i] = <<>>, !.roots = Append(@, i)]
    ELSE LET parentKey == ns[i].parentKey IN
         IF parentKey \in DOMAIN nodeMap
         THEN LET parent == nodeMap[parentKey]
                  reset == [st.children EXCEPT ![i] = <<>>]
              IN  [st EXCEPT !.children = [reset EXCEPT ![parent] = <<i>> \o reset[parent]]]
         ELSE handleOrphanNode(ns, strategy, st, i, parentKey)

\* No children list is reset: a record keeps what earlier calls left on it.
LinkStep_NoReset(ns, strategy, nodeMap, st, i) ==
    IF ns[i].isRoot
    THEN [st EXCEPT !.roots = Append(@, i)]
    ELSE LET parentKey == ns[i].parentKey IN
         IF parentKey \in DOMAIN nodeMap
         THEN LET parent == nodeMap[parentKey]
              IN  [st EXCEPT !.children[parent] = Append(@, i)]
         ELSE handleOrphanNode(ns, strategy, st, i, parentKey)

\* A record counts as a root when its parent key is the zero value, whatever
\* its IsRoot says.
LinkStep_RootByZeroParent(ns, strategy, nodeMap, st, i) ==
    IF ns[i].parentKey = 0
    THEN [st EXCEPT !.children[i] = <<>>, !.roots = Append(@, i)]
    ELSE LET parentKey == ns[i].parentKey IN
         IF parentKey \in DOMAIN nodeMap
         THEN LET parent == nodeMap[parentKey]
                  reset == [st.children EXCEPT ![i] = <<>>]
              IN  [st EXCEPT !.children = [reset EXCEPT ![parent] = Append(reset[parent], i)]]
         ELSE handleOrphanNode(ns, strategy, st, i, parentKey)

\* One iteration of Build's second pass, for the record at position i.
LinkStep(ns, strategy, nodeMap, st, i) ==
    IF ns[i].isRoot
    THEN [st EXCEPT !.children[i] = <<>>, !.roots = Append(@, i)]
    ELSE LET parentKey == ns[i].parentKey IN
         IF parentKey \in DOMAIN nodeMap
         THEN LET parent == nodeMap[parentKey]
                  reset == [st.children EXCEPT ![i] = <<>>]
              IN  [st EXCEPT !.children = [reset EXCEPT ![parent] = Append(reset[parent], i)]]
         ELSE handleOrphanNode(ns, strategy, st, i, parentKey)

\* Build's second pass over positions i..Len(ns).
RECURSIVE LinkFrom(_, _, _, _, _)
LinkFrom(ns, strategy, nodeMap, st, i) ==
    IF i > Len(ns) THEN st
    ELSE LinkFrom(ns, strategy, nodeMap, LinkStep(ns, strategy, nodeMap, st, i), i + 1)

\* ------------------------------------------------------------------- sort
\* All orderings of the elements of list s (positions kept distinct).
Perms(s) ==
    {[i \in DOMAIN s |-> s[p[i]]] :
        p \in {q \in [DOMAIN s -> DOMAIN s] : \A i, j \in DOMAIN s : q[i] = q[j] => i = j}}

\* A sort that keeps one element of each group of elements the comparator
\* ranks equal.
SortSlice_DedupTies(ns, cmp, s) ==
    {t \in UNION {[1..m -> {s[k] : k \in DOMAIN s}] : m \in 0..Len(s)} :
        /\ \A i, j \in DOMAIN t : i < j => Compare(cmp, ns[t[i]], ns[t[j]]) < 0
        /\ \A k \in DOMAIN s : \E i \in DOMAIN t : Compare(cmp, ns[s[k]], ns[t[i]]) = 0}

\* sort.Slice(s, less) with less(x, y) == Compare(x, y) < 0: the sort is not
\* stable, so every ordering in which no element is less than one before it
\* is a possible outcome.
SortSlice(ns, cmp, s) ==
    {t \in Perms(s) :
        \A i, j \in DOMAIN t : i < j => ~(Compare(cmp, ns[t[j]], ns[t[i]]) < 0)}

\* sortTreeRecursive(list) after its own sort.Slice of list: the loop over
\* list[k..], each node's Children sorted in place, then the recursion on a
\* typed copy.  The set of Children assignments the call can end with.
RECURSIVE SortLoop(_, _, _, _, _)
SortLoop(ns, cmp, ch, list, k) ==
    IF k > Len(list) THEN {ch}
    ELSE LET n == list[k] IN
         IF Len(ch[n]) = 0 THEN SortLoop(ns, cmp, ch, list, k + 1)
         ELSE UNION {
                UNION {
                  UNION { SortLoop(ns, cmp, ch2, list, k + 1) :
                          ch2 \in SortLoop(ns, cmp, [ch EXCEPT ![n] = sorted], typed, 1) }
                  : typed \in SortSlice(ns, cmp, sorted) }
                : sorted \in SortSlice(ns, cmp, ch[n]) }

\* A sortTreeRecursive that sorts the list it is given and does not descend.
sortTreeRecursive_RootsOnly(ns, cmp, st) ==
    IF cmp = "nil" \/ Len(st.roots) = 0 THEN {st}
    ELSE {[st EXCEPT !.roots = sorted] : sorted \in SortSlice(ns, cmp, st.roots)}

\* sortTreeRecursive(roots): the possible <<roots, children>> results.
sortTreeRecursive(ns, cmp, st) ==
    IF cmp = "nil" \/ Len(st.roots) = 0 THEN {st}
    ELSE UNION {
           { [st EXCEPT !.roots = sorted, !.children = ch2] :
             ch2 \in SortLoop(ns, cmp, st.children, sorted, 1) }
           : sorted \in SortSlice(ns, cmp, st.roots) }

\* Build(nodes) on records whose Children fields are ch: the possible
\* results [children, roots, calls].
BuildResults(ns, strategy, cmp, ch) ==
    IF Len(ns) = 0
    THEN {[children |-> ch, roots |-> <<>>, calls |-> <<>>]}
    ELSE LET linked == LinkFrom(ns, strategy, NodeMap(ns),
                                [children |-> ch, roots |-> <<>>, calls |-> <<>>], 1)
         IN  IF cmp # "nil" THEN sortTreeRecursive(ns, cmp, linked) ELSE {linked}

\* ------------------------------------------- the older builder (package tree)
\* tree.TreeBuilder.Build, first pass: every record's Children is set to
\* an empty list while the key index is filled.
TreeResetAll(ns) == [i \in DOMAIN ns |-> <<>>]

\* One iteration of the second pass of tree.TreeBuilder.Build: a root is
\* appended to the roots, a record whose parent key is in the index is
\* appended to that parent's children, and the handler is called for any
\* other record.
TreeLinkStep(ns, nodeMap, st, i) ==
    IF ns[i].isRoot
    THEN [st EXCEPT !.roots = Append(@, i)]
    ELSE LET parentKey == ns[i].parentKey IN
         IF parentKey \in DOMAIN nodeMap
         THEN [st EXCEPT !.children[nodeMap[parentKey]] = Append(@, i)]
         ELSE [st EXCEPT !.calls = Append(@, <<ns[i].key, parentKey>>)]

RECURSIVE TreeLinkFrom(_, _, _, _)
TreeLinkFrom(ns, nodeMap, st, i) ==
    IF i > Len(ns) THEN st
    ELSE TreeLinkFrom(ns, nodeMap, TreeLinkStep(ns, nodeMap, st, i), i + 1)

\* tree.TreeBuilder.sortNodes: sort.Slice with the comparator.
sortNodes(ns, cmp, s) == SortSlice(ns, cmp, s)

\* tree.TreeBuilder.sortChildrenRecursive(list), the loop over list[k..]:
\* a typed copy of each node's children is sorted, stored on the node and
\* descended into.
RECURSIVE sortChildrenRecursive(_, _, _, _, _)
sortChildrenRecursive(ns, cmp, ch, list, k) ==
    IF k > Len(list) THEN {ch}
    ELSE LET n == list[k] IN
         IF Len(ch[n]) = 0 THEN sortChildrenRecursive(ns, cmp, ch, list, k + 1)
         ELSE UNION {
                UNION { sortChildrenRecursive(ns, cmp, ch2, list, k + 1) :
                        ch2 \in sortChildrenRecursive(ns, cmp, [ch EXCEPT ![n] = typed], typed, 1) }
                : typed \in sortNodes(ns, cmp, ch[n]) }

\* tree.TreeBuilder.Build(nodes): the possible results [children, roots,
\* calls]. The Children fields the records come with do not matter, the
\* first pass replaces them all.
TreeBuildResults(ns, cmp) ==
    IF Len(ns) = 0
    THEN {[children |-> <<>>, roots |-> <<>>, calls |-> <<>>]}
    ELSE LET linked == TreeLinkFrom(ns, NodeMap(ns),
                                    [children |-> TreeResetAll(ns), roots |-> <<>>, calls |-> <<>>], 1)
         IN  IF cmp # "nil"
             THEN UNION {
                    { [linked EXCEPT !.roots = sorted, !.children = ch2] :
                      ch2 \in sortChildrenRecursive(ns, cmp, linked.children, sorted, 1) }
                    : sorted \in sortNodes(ns, cmp, linked.roots) }
             ELSE {linked}

\* ------------------------------------------------------------ queries
\* A traversal that records a level and never descends below it.
traverseByLevel_NoDescent(ch, list, level, result) ==
    IF Len(list) = 0 THEN result
    ELSE [l \in DOMAIN result \cup {level} |->
             IF l = level THEN list ELSE result[l]]

\* traverseByLevel(list, level, result): result maps a level to its records.
RECURSIVE traverseByLevel(_, _, _, _)
traverseByLevel(ch, list, level, result) ==
    IF Len(list) = 0 THEN result
    ELSE LET here == IF level \in DOMAIN result THEN result[level] \o list ELSE list
             withLevel == [l \in DOMAIN result \cup {level} |->
                              IF l = level THEN here ELSE result[l]]
             NextLevel[k \in 0..Len(list)] ==
                 IF k = 0 THEN <<>> ELSE NextLevel[k - 1] \o ch[list[k]]
         IN  IF Len(NextLevel[Len(list)]) > 0
             THEN traverseByLevel(ch, NextLevel[Len(list)], level + 1, withLevel)
             ELSE withLevel

\* GetNodesByLevel(roots)
GetNodesByLevel(ch, rts) ==
    IF Len(rts) = 0 THEN <<>> ELSE traverseByLevel(ch, rts, 0, <<>>)

\* A depth search that follows the first record of a list only.
RECURSIVE getMaxLevelRecursive_FirstOnly(_, _, _)
getMaxLevelRecursive_FirstOnly(ch, list, currentLevel) ==
    IF Len(list) > 0 /\ Len(ch[list[1]]) > 0
    THEN getMaxLevelRecursive_FirstOnly(ch, ch[list[1]], currentLevel + 1)
    ELSE currentLevel

\* getMaxLevelRecursive(nodes, currentLevel): the loop keeps the largest
\* level the recursion into a non-empty children list returned.
RECURSIVE getMaxLevelRecursive(_, _, _)
getMaxLevelRecursive(ch, list, currentLevel) ==
    LET Loop[k \in 0..Len(list)] ==
            IF k = 0 THEN currentLevel
            ELSE LET kids == ch[list[k]] IN
                 IF Len(kids) > 0
                 THEN LET childMaxLevel ==
                              getMaxLevelRecursive(ch, kids, currentLevel + 1)
                      IN  IF childMaxLevel > Loop[k - 1]
                          THEN childMaxLevel ELSE Loop[k - 1]
                 ELSE Loop[k - 1]
    IN  Loop[Len(list)]

\* GetMaxLevel(roots)
GetMaxLevel(ch, rts) ==
    IF Len(rts) = 0 THEN 0 - 1 ELSE getMaxLevelRecursive(ch, rts, 0)

\* The key index of BuildWithMap, when a record keeps the first entry of
\* its key.
BuildWithMapIndex_FirstWins(ns) ==
    [k \in {ns[i].key : i \in DOMAIN ns} |->
        CHOOSE i \in DOMAIN ns :
            /\ ns[i].key = k
            /\ \A j \in DOMAIN ns : ns[j].key = k => j >= i]

\* The key index BuildWithMap returns: its own loop over the input, in
\* which a later record replaces an earlier one of the same key.
BuildWithMapIndex(ns) ==
    [k \in {ns[i].key : i \in DOMAIN ns} |->
        CHOOSE i \in DOMAIN ns :
            /\ ns[i].key = k
            /\ \A j \in DOMAIN ns : ns[j].key = k => j <= i]

\* ------------------------------------------------- vocabulary of the claims
Range(s) == {s[k] : k \in DOMAIN s}
Count(s, x) == Cardinality({k \in DOMAIN s : s[k] = x})
Positions == DOMAIN nodes
Built == builds >= 1
KeysPresent == {nodes[i].key : i \in Positions}
UniqueKeys == \A i, j \in Positions : nodes[i].key = nodes[j].key => i = j

\* The records reachable from the root sequence through Children fields.
RECURSIVE ReachFrom(_, _, _)
ReachFrom(ch, frontier, seen) ==
    IF frontier \subseteq seen THEN seen
    ELSE ReachFrom(ch, UNION {Range(ch[n]) : n \in frontier \ seen}, seen \cup frontier)
Forest == ReachFrom(children, Range(roots), {})

\* A non-root record whose parent key is absent from the index.
IsOrphan(i) == ~nodes[i].isRoot /\ nodes[i].parentKey \notin KeysPresent
Orphans == {i \in Positions : IsOrphan(i)}
\* A non-root record whose parent key is present in the index.
IsResolved(i) == ~nodes[i].isRoot /\ nodes[i].parentKey \in KeysPresent
\* The record the key index maps i's parent key to.
ParentOf(i) == NodeMap(nodes)[nodes[i].parentKey]

\* The positions of set S in input order.
RECURSIVE InOrder(_)
InOrder(S) ==
    IF S = {} THEN <<>>
    ELSE LET m == CHOOSE x \in S : \A y \in S : x <= y
         IN  <<m>> \o InOrder(S \ {m})

\* Every place (a slot of the root sequence, or a slot of some record's
\* children list) that holds record i.
PlacesOf(i) ==
    {<<0, k>> : k \in {k \in DOMAIN roots : roots[k] = i}}
    \cup UNION {{<<j, k>> : k \in {k \in DOMAIN children[j] : children[j][k] = i}} : j \in Positions}

\* ------------------------------------------------------------------- C1
\* C1: after Build, every record of the returned forest is held in exactly
\* one place, a slot of the root sequence or a slot of the children list of
\* one record, and a record held in a children list is held by the record
\* the key index maps its parent key to; for every input and every policy.
C1_Partition ==
    Built =>
        \A i \in Forest :
            /\ Cardinality(PlacesOf(i)) = 1
            /\ \A j \in Positions :
                   i \in Range(children[j]) =>
                       /\ nodes[i].parentKey \in KeysPresent
                       /\ ParentOf(i) = j

\* A forest with a child under the later of two records sharing a key, and
\* two records that name each other as parent.
C1_Witness ==
    /\ Built
    /\ \E i, j, c \in Positions :
          /\ i < j /\ nodes[i].key = nodes[j].key
          /\ j \in Range(roots) /\ c \in Range(children[j])
    /\ Len(nodes) = MaxLen

\* ------------------------------------------------------------------- C2
\* Record i is a root, or its parent chain through the key index ends at one.
RECURSIVE EndsAtRoot(_, _)
EndsAtRoot(i, fuel) ==
    IF nodes[i].isRoot THEN TRUE
    ELSE IF fuel = 0 \/ nodes[i].parentKey \notin KeysPresent THEN FALSE
    ELSE EndsAtRoot(ParentOf(i), fuel - 1)
NoOrphanChains == \A i \in Positions : EndsAtRoot(i, Len(nodes))

\* The number of records over all levels of GetNodesByLevel(roots).
LevelTotal ==
    LET m == GetNodesByLevel(children, roots)
        Sum[l \in -1..Len(nodes)] ==
            IF l = -1 THEN 0
            ELSE Sum[l - 1] + (IF l \in DOMAIN m THEN Len(m[l]) ELSE 0)
    IN  Sum[Len(nodes)]

\* C2: with unique keys and every record a root or chained to a root, every
\* input record is in the forest Build returns, in whatever order the input
\* lists the records, and the levels of GetNodesByLevel hold as many records
\* as the input.
C2_AllRecordsInForest ==
    (Built /\ UniqueKeys /\ NoOrphanChains) =>
        /\ Forest = Positions
        /\ LevelTotal = Len(nodes)

\* ------------------------------------------------------------------- C3
\* C3: under Ignore an orphan is in neither the root sequence nor the
\* children list of a record of the forest, while every root is in the root
\* sequence and every record whose parent key resolves is in the children
\* list of the parent it resolves to.
C3_OrphanDroppedOthersKept ==
    (Built /\ orphanStrategy = IgnoreOrphans /\ Orphans # {}) =>
        /\ \A i \in Orphans :
              /\ i \notin Range(roots)
              /\ \A j \in Forest : i \notin Range(children[j])
        /\ \A i \in Positions : nodes[i].isRoot => i \in Range(roots)
        /\ \A i \in Positions : IsResolved(i) => i \in Range(children[ParentOf(i)])

\* The part of C3 about the orphan alone: it is in no place of the forest.
OrphanDroppedUnderIgnore ==
    (Built /\ orphanStrategy = IgnoreOrphans) =>
        \A i \in Orphans :
            /\ i \notin Forest
            /\ i \notin Range(roots)
            /\ \A j \in Forest : i \notin Range(children[j])

\* ------------------------------------------------------------------- C4
\* One invocation (nodeKey, parentKey) per orphan, in input order.
OrphanCalls ==
    LET o == InOrder(Orphans)
    IN  [k \in DOMAIN o |-> <<nodes[o[k]].key, nodes[o[k]].parentKey>>]

\* C4: under Ignore the handler invocations of one Build are exactly one per
\* orphan, in input order, with the orphan's key and the missing parent key;
\* none is made for a root or for a record whose parent key is present.
C4_IgnoreCallsPerOrphan ==
    (Built /\ orphanStrategy = IgnoreOrphans) => errCalls = OrphanCalls

\* Two orphans with different keys around a root that is returned.
C4_Witness ==
    /\ Built /\ orphanStrategy = IgnoreOrphans
    /\ Len(errCalls) = 2 /\ errCalls[1][1] # errCalls[2][1]
    /\ roots # <<>>

\* ------------------------------------------------------------------- C5
\* The input of the Collect scenario: root 1, child 2 of 1, record 3 whose
\* parent key no record carries.
CollectScenario ==
    nodes = << [key |-> 1, parentKey |-> 0, isRoot |-> TRUE],
               [key |-> 2, parentKey |-> 1, isRoot |-> FALSE],
               [key |-> 3, parentKey |-> 0, isRoot |-> FALSE] >>

\* C5: under Collect every orphan is in the root sequence once and in no
\* children list; with no comparator the root sequence is the roots and the
\* orphans in input order; the scenario gives roots 1 (with child 2) and 3.
C5_CollectPromotes ==
    (Built /\ orphanStrategy = CollectOrphans) =>
        /\ \A i \in Orphans :
              /\ Count(roots, i) = 1
              /\ \A j \in Positions : i \notin Range(children[j])
        /\ comparator = "nil" =>
              roots = InOrder({i \in Positions : nodes[i].isRoot \/ IsOrphan(i)})
        /\ CollectScenario =>
              /\ roots = <<1, 3>>
              /\ children = << <<2>>, <<>>, <<>> >>

C5_Witness ==
    /\ Built /\ orphanStrategy = CollectOrphans /\ comparator = "nil"
    /\ CollectScenario
    /\ roots = <<1, 3>>

C7_ErrorSameAsIgnore ==
    [][ /\ orphanStrategy = ErrorOnOrphans =>
            /\ \E r \in BuildResults(nodes, IgnoreOrphans, comparator, children) :
                  r.roots = roots' /\ r.children = children' /\ r.calls = errCalls'
            /\ Len(errCalls') = Cardinality(Orphans)
            /\ \A i \in Positions : nodes[i].isRoot => i \in Range(roots')
        /\ orphanStrategy = IgnoreOrphans =>
            \E r \in BuildResults(nodes, ErrorOnOrphans, comparator, children) :
                  r.roots = roots' /\ r.children = children' /\ r.calls = errCalls'
      ]_vars

\* Under Error: an orphan first, then a root that is returned with a child.
C7_Witness ==
    /\ Built /\ orphanStrategy = ErrorOnOrphans
    /\ Len(nodes) = 3 /\ IsOrphan(1)
    /\ errCalls = <<<<nodes[1].key, nodes[1].parentKey>>>>
    /\ roots = <<2>> /\ children[2] = <<3>>

\* ------------------------------------------------------------------- C9
\* s lists positions in input order.
Increasing(s) == \A k, l \in DOMAIN s : k < l => s[k] < s[l]

\* C9: with no comparator the root sequence is the roots (and, under
\* Collect, the promoted orphans) in input order, and the children list of
\* every node of the forest is in input order.
C9_InsertionOrder ==
    (Built /\ comparator = "nil") =>
        /\ roots = InOrder({i \in Positions :
                     nodes[i].isRoot \/ (orphanStrategy = CollectOrphans /\ IsOrphan(i))})
        /\ \A j \in Forest : Increasing(children[j])

\* A root with two children, listed in input order.
C9_Witness ==
    /\ Built /\ comparator = "nil"
    /\ roots = <<1>> /\ children[1] = <<2, 3>>

\* ------------------------------------------------------------------- C8
\* s is in comparator order: every adjacent pair (a, b) has Compare(a, b) <= 0.
SortedBy(cmp, s) ==
    \A k \in 1..(Len(s) - 1) : Compare(cmp, nodes[s[k]], nodes[s[k + 1]]) <= 0

\* The depth of record i in the forest (0 for a root).
DepthOf(i) ==
    LET m == GetNodesByLevel(children, roots)
    IN  CHOOSE l \in DOMAIN m : i \in Range(m[l])

\* C8: with a comparator configured, after Build the root sequence and the
\* children list of every node of the forest, at every depth, are in
\* comparator order.
C8_SortedEverywhere ==
    (Built /\ comparator # "nil") =>
        /\ SortedBy(comparator, roots)
        /\ \A n \in Forest : SortedBy(comparator, children[n])

\* A node at depth 1 whose two children were listed in the input in the
\* opposite of their comparator order, and are returned in comparator order.
C8_Witness ==
    /\ Built /\ comparator = "ID"
    /\ \E n \in Forest :
          /\ DepthOf(n) = 1
          /\ Len(children[n]) = 2
          /\ children[n][1] > children[n][2]
          /\ nodes[children[n][1]].key < nodes[children[n][2]].key

\* ------------------------------------------------------------------ C10
\* The results of the components of the composite, left to right.
ComponentResults ==
    [k \in DOMAIN composite |-> ComponentCompare(composite[k], operands[1], operands[2])]

\* C10: Compare of a composite returns the result of the leftmost component
\* whose result is nonzero, and 0 when every component returns 0 (also for
\* an empty list); when the first returns 0 the second decides.
C10_FirstNonzero ==
    cmpResult # <<>> =>
        LET c == ComponentResults IN
        /\ (\A k \in DOMAIN c : c[k] = 0) => cmpResult[1] = 0
        /\ \A k \in DOMAIN c :
              (c[k] # 0 /\ \A l \in 1..(k - 1) : c[l] = 0) => cmpResult[1] = c[k]
        /\ (Len(c) >= 2 /\ c[1] = 0 /\ c[2] # 0) => cmpResult[1] = c[2]

\* Order then Name on records of equal Order and different Name: the second
\* component decides.
C10_Witness ==
    /\ cmpResult # <<>>
    /\ composite = <<"Order", "Name">>
    /\ operands[1].order = operands[2].order
    /\ StrLess(operands[2].name, operands[1].name)
    /\ cmpResult = <<1>>

\* ------------------------------------------------------------- the system
Inputs == UNION {[1..n -> NodeRecords] : n \in 0..MaxLen}

\* The parts of the state a run over another part of the repository leaves
\* at rest.
NoTree ==
    /\ nodes = <<>>
    /\ children = <<>>
    /\ orphanStrategy = IgnoreOrphans
    /\ comparator = "nil"
    /\ roots = <<>>
    /\ errCalls = <<>>
    /\ builds = 0
NoCompare == composite = <<>> /\ operands = <<>> /\ cmpResult = <<>>
NoQuery == levels = <<>> /\ maxLevel = <<>> /\ keyIndex = <<>>
NoProcs == procs = <<>>
NoSlice == slice = <<>> /\ groupSize = 0 /\ groups = <<>>
NoClient == client = <<>> /\ sent = <<>>

Init ==
    /\ nodes \in Inputs
    /\ children = [i \in DOMAIN nodes |-> <<>>]
    /\ orphanStrategy \in Strategies
    /\ comparator \in Comparators
    /\ roots = <<>>
    /\ errCalls = <<>>
    /\ builds = 0
    /\ NoCompare /\ NoQuery /\ NoProcs /\ NoSlice /\ NoClient

\* TreeBuilder.Build(nodes)
Build ==
    /\ builds < MaxBuilds
    /\ \E r \in BuildResults(nodes, orphanStrategy, comparator, children) :
        /\ children' = r.children
        /\ roots' = r.roots
        /\ errCalls' = r.calls
    /\ builds' = builds + 1
    /\ levels' = <<>> /\ maxLevel' = <<>> /\ keyIndex' = <<>>
    /\ UNCHANGED <<nodes, orphanStrategy, comparator, cmpVars, procs, sliceVars, httpVars>>

\* TreeBuilder.BuildWithMap(nodes): the index, then Build on the same input.
\* An empty input returns before Build is called, which Build on an empty
\* input leaves indistinguishable.
BuildWithMap ==
    /\ builds < MaxBuilds
    /\ \E r \in BuildResults(nodes, orphanStrategy, comparator, children) :
        /\ children' = r.children
        /\ roots' = r.roots
        /\ errCalls' = r.calls
    /\ keyIndex' = <<BuildWithMapIndex(nodes)>>
    /\ builds' = builds + 1
    /\ levels' = <<>> /\ maxLevel' = <<>>
    /\ UNCHANGED <<nodes, orphanStrategy, comparator, cmpVars, procs, sliceVars, httpVars>>

\* A traversal that takes the children off the roots it visits.
GetNodesByLevelCall_Detaching ==
    /\ builds >= 1
    /\ levels' = <<GetNodesByLevel(children, roots)>>
    /\ children' = [i \in DOMAIN children |->
                        IF \E k \in DOMAIN roots : roots[k] = i THEN <<>> ELSE children[i]]
    /\ UNCHANGED <<nodes, orphanStrategy, comparator, roots, errCalls, builds,
                   cmpVars, maxLevel, keyIndex, procs, sliceVars, httpVars>>

\* TreeBuilder.GetNodesByLevel(roots) on the forest the last build returned
GetNodesByLevelCall ==
    /\ builds >= 1
    /\ levels' = <<GetNodesByLevel(children, roots)>>
    /\ UNCHANGED <<treeVars, cmpVars, maxLevel, keyIndex, procs, sliceVars, httpVars>>

\* TreeBuilder.GetMaxLevel(roots) on the forest the last build returned
GetMaxLevelCall ==
    /\ builds >= 1
    /\ maxLevel' = <<GetMaxLevel(children, roots)>>
    /\ UNCHANGED <<treeVars, cmpVars, levels, keyIndex, procs, sliceVars, httpVars>>

Next == Build

Spec == Init /\ [][Next]_vars

\* ---------------------------------------------------------- sorting runs
\* Inputs of the tests' node type (IsRoot is ParentID == 0), up to
\* MaxSortLen records, built with IDComparator.
TestNodes(n) == {r \in [key : 1..n, parentKey : 0..n, isRoot : BOOLEAN] :
                    r.isRoot = (r.parentKey = 0)}

InitSort ==
    /\ nodes \in UNION {[1..n -> TestNodes(n)] : n \in 0..MaxSortLen}
    /\ children = [i \in DOMAIN nodes |-> <<>>]
    /\ orphanStrategy \in Strategies
    /\ comparator = "ID"
    /\ roots = <<>>
    /\ errCalls = <<>>
    /\ builds = 0
    /\ NoCompare /\ NoQuery /\ NoProcs /\ NoSlice /\ NoClient

SpecSort == InitSort /\ [][Next]_vars

\* ------------------------------------------------------------ query runs
\* Inputs with one record per key, key i at position i, the parent key of
\* each drawn freely: every shape and input order of up to MaxDeepLen
\* records, up to a renaming of the keys.
OneKeyEach(f) ==
    [i \in DOMAIN f |-> [key |-> i, parentKey |-> f[i], isRoot |-> f[i] = 0]]
OnePerKey(n) == {OneKeyEach(f) : f \in [1..n -> 0..n]}

InitQuery ==
    /\ \/ nodes \in Inputs /\ comparator = "nil"
       \/ /\ \E n \in 0..MaxDeepLen : \E f \in [1..n -> 0..n] : nodes = OneKeyEach(f)
          /\ comparator \in Comparators
    /\ children = [i \in DOMAIN nodes |-> <<>>]
    /\ orphanStrategy \in Strategies
    /\ roots = <<>>
    /\ errCalls = <<>>
    /\ builds = 0
    /\ NoCompare /\ NoQuery /\ NoProcs /\ NoSlice /\ NoClient

NextQuery == Build \/ BuildWithMap \/ GetNodesByLevelCall \/ GetMaxLevelCall

SpecQuery == InitQuery /\ [][NextQuery]_vars

\* -------------------------------------------------------- concurrent runs
\* Two Build calls on one builder, each a goroutine of its own. nodes is
\* the heap of record instances and children their Children fields; a call
\* holds its input (positions in the heap) and Build's locals. A step is
\* at most one access to a Children field.
Procs == {1, 2}

\* An index kept on the builder and filled by every call, where the code
\* has a local of the call.
CallIndex_OnBuilder(inp) ==
    [k \in {nodes[i].key : i \in DOMAIN nodes} |->
        CHOOSE i \in DOMAIN nodes :
            /\ nodes[i].key = k
            /\ \A j \in DOMAIN nodes : nodes[j].key = k => j <= i]

\* nodeMap of a call on the input inp: the last record of inp with the key.
CallIndex(inp) ==
    [k \in {nodes[inp[j]].key : j \in DOMAIN inp} |->
        inp[CHOOSE j \in DOMAIN inp :
                /\ nodes[inp[j]].key = k
                /\ \A j2 \in DOMAIN inp : nodes[inp[j2]].key = k => j2 <= j]]

\* A roots slice kept on the builder, which every call appends to.
AppendRoot_OnBuilder(ps, p, node) ==
    [q \in DOMAIN ps |-> [ps[q] EXCEPT !.roots = Append(@, node)]]

\* roots = append(roots, node) on the local roots of call p
AppendRoot(ps, p, node) == [ps EXCEPT ![p].roots = Append(@, node)]

\* The locals of a call that has not started.
NewCall(inp) ==
    [input |-> inp, pc |-> "start", k |-> 0, nodeMap |-> <<>>, roots |-> <<>>,
     calls |-> <<>>, held |-> <<>>, ret |-> <<>>]

\* What a call returns: its roots and handler invocations, and the
\* Children fields as they are when it returns.
Returned(rts, ch, cs) == <<[roots |-> rts, children |-> ch, calls |-> cs]>>

\* Entry of Build: the empty-input return, or the first pass.
BuildStart(p) ==
    /\ procs[p].pc = "start"
    /\ IF Len(procs[p].input) = 0
       THEN procs' = [procs EXCEPT ![p].pc = "done",
                                   ![p].ret = Returned(<<>>, children, <<>>)]
       ELSE procs' = [procs EXCEPT ![p].pc = "loop", ![p].k = 1,
                                   ![p].nodeMap = CallIndex(procs[p].input)]
    /\ UNCHANGED <<treeVars, cmpVars, queryVars, sliceVars, httpVars>>

\* An iteration of the second pass up to its first access to the parent:
\* a root or an orphan is handled whole, a resolved child is reset.
BuildVisit(p) ==
    /\ procs[p].pc = "loop"
    /\ procs[p].k <= Len(procs[p].input)
    /\ LET node == procs[p].input[procs[p].k]
           parentKey == nodes[node].parentKey
       IN  IF nodes[node].isRoot
           THEN /\ children' = [children EXCEPT ![node] = <<>>]
                /\ procs' = [AppendRoot(procs, p, node) EXCEPT ![p].k = @ + 1]
           ELSE IF parentKey \in DOMAIN procs[p].nodeMap
           THEN /\ children' = [children EXCEPT ![node] = <<>>]
                /\ procs' = [procs EXCEPT ![p].pc = "get"]
           ELSE LET st == handleOrphanNode(nodes, orphanStrategy,
                              [children |-> children, roots |-> procs[p].roots,
                               calls |-> procs[p].calls], node, parentKey)
                IN  /\ children' = st.children
                    /\ procs' = [procs EXCEPT ![p].roots = st.roots,
                                              ![p].calls = st.calls,
                                              ![p].k = @ + 1]
    /\ UNCHANGED <<nodes, orphanStrategy, comparator, roots, errCalls, builds,
                   cmpVars, queryVars, sliceVars, httpVars>>

\* children := parent.GetChildren()
BuildGetChildren(p) ==
    /\ procs[p].pc = "get"
    /\ LET node == procs[p].input[procs[p].k]
           parent == procs[p].nodeMap[nodes[node].parentKey]
       IN  procs' = [procs EXCEPT ![p].pc = "set", ![p].held = children[parent]]
    /\ UNCHANGED <<treeVars, cmpVars, queryVars, sliceVars, httpVars>>

\* parent.SetChildren(append(children, node))
BuildSetChildren(p) ==
    /\ procs[p].pc = "set"
    /\ LET node == procs[p].input[procs[p].k]
           parent == procs[p].nodeMap[nodes[node].parentKey]
       IN  children' = [children EXCEPT ![parent] = Append(procs[p].held, node)]
    /\ procs' = [procs EXCEPT ![p].pc = "loop", ![p].k = @ + 1, ![p].held = <<>>]
    /\ UNCHANGED <<nodes, orphanStrategy, comparator, roots, errCalls, builds,
                   cmpVars, queryVars, sliceVars, httpVars>>

\* After the second pass: the sort, if a comparator is configured, and the
\* return of the roots.
BuildReturn(p) ==
    /\ procs[p].pc = "loop"
    /\ procs[p].k > Len(procs[p].input)
    /\ \E r \in (IF comparator # "nil"
                 THEN sortTreeRecursive(nodes, comparator,
                          [children |-> children, roots |-> procs[p].roots,
                           calls |-> procs[p].calls])
                 ELSE {[children |-> children, roots |-> procs[p].roots,
                        calls |-> procs[p].calls]}) :
        /\ children' = r.children
        /\ procs' = [procs EXCEPT ![p].pc = "done", ![p].roots = r.roots,
                                  ![p].ret = Returned(r.roots, r.children, r.calls)]
    /\ UNCHANGED <<nodes, orphanStrategy, comparator, roots, errCalls, builds,
                   cmpVars, queryVars, sliceVars, httpVars>>

NextConc ==
    \E p \in Procs :
        \/ BuildStart(p)
        \/ BuildVisit(p)
        \/ BuildGetChildren(p)
        \/ BuildSetChildren(p)
        \/ BuildReturn(p)

\* The positions lo..hi, in order.
Run(lo, hi) == [j \in 1..(hi - lo + 1) |-> lo + j - 1]

\* Each call is handed records of its own; the two sets may hold the same
\* keys.
InitDisjoint ==
    /\ \E a, b \in 0..MaxConcLen :
        /\ nodes \in [1..(a + b) -> TestNodes(MaxConcLen)]
        /\ procs = [p \in Procs |->
                       NewCall(IF p = 1 THEN Run(1, a) ELSE Run(a + 1, a + b))]
    /\ children = [i \in DOMAIN nodes |-> <<>>]
    /\ orphanStrategy \in Strategies
    /\ comparator \in Comparators
    /\ roots = <<>>
    /\ errCalls = <<>>
    /\ builds = 0
    /\ NoCompare /\ NoQuery /\ NoSlice /\ NoClient

SpecDisjoint == InitDisjoint /\ [][NextConc]_vars

\* Both calls are handed the same list of record instances, on a builder
\* without a comparator.
InitShared ==
    /\ nodes \in UNION {OnePerKey(n) : n \in 0..MaxSharedLen}
    /\ procs = [p \in Procs |-> NewCall(Run(1, Len(nodes)))]
    /\ children = [i \in DOMAIN nodes |-> <<>>]
    /\ orphanStrategy \in Strategies
    /\ comparator = "nil"
    /\ roots = <<>>
    /\ errCalls = <<>>
    /\ builds = 0
    /\ NoCompare /\ NoQuery /\ NoSlice /\ NoClient

SpecShared == InitShared /\ [][NextConc]_vars

\* ------------------------------------------------------- SliceGroup runs
\* Go's int: two's complement of IntBits bits; + and - wrap around, /
\* truncates toward zero.
MinInt == 0 - 2^(IntBits - 1)
MaxInt == 2^(IntBits - 1) - 1
Wrap(x) ==
    LET m == x % 2^IntBits IN IF m > MaxInt THEN m - 2^IntBits ELSE m
Abs(x) == IF x < 0 THEN 0 - x ELSE x
Quo(a, b) ==
    IF (a < 0) = (b < 0) THEN Abs(a) \div Abs(b) ELSE 0 - (Abs(a) \div Abs(b))

\* What a call ends with: nil, a list of groups, or a run-time panic.
Outcome(kind, list) == [kind |-> kind, list |-> list]

\* The loop of SliceGroup from index i, acc the groups appended so far. A
\* slice expression slice[i:end] with end < i panics.
RECURSIVE SliceGroupLoop(_, _, _, _)
SliceGroupLoop(s, size, i, acc) ==
    IF i >= 0 /\ i < Len(s)
    THEN LET sum == Wrap(i + size)
             end == IF sum > Len(s) THEN Len(s) ELSE sum
         IN  IF end < i
             THEN Outcome("panic", <<>>)
             ELSE SliceGroupLoop(s, size, sum, Append(acc, SubSeq(s, i + 1, end)))
    ELSE Outcome("list", acc)

\* SliceGroup(slice, groupSize); make with a negative capacity panics.
SliceGroup(s, size) ==
    IF size <= 0 THEN Outcome("nil", <<>>)
    ELSE IF Len(s) = 0 THEN Outcome("list", <<>>)
    ELSE LET groupCount == Quo(Wrap(Wrap(Len(s) + size) - 1), size)
         IN  IF groupCount < 0
             THEN Outcome("panic", <<>>)
             ELSE SliceGroupLoop(s, size, 0, <<>>)

InitSlice ==
    /\ slice \in UNION {[1..n -> 1..MaxElem] : n \in 0..MaxSliceLen}
    /\ groupSize \in MinInt..MaxInt
    /\ groups = <<>>
    /\ NoTree /\ NoCompare /\ NoQuery /\ NoProcs /\ NoClient

\* A call SliceGroup(slice, groupSize)
SliceGroupCall ==
    /\ groups = <<>>
    /\ groups' = <<SliceGroup(slice, groupSize)>>
    /\ UNCHANGED <<treeVars, cmpVars, queryVars, procs, slice, groupSize, httpVars>>

NextSlice == SliceGroupCall

SpecSlice == InitSlice /\ [][NextSlice]_vars

\* ------------------------------------------------------------ ghttp runs
\* The timeout do falls back to, in seconds.
DefaultTimeout == 3
Timeouts == 0..MaxTimeout

\* What one httpClient.Do attempt ends with: a transport error (0), or a
\* response with a status code.
TransportError == 0
Attempts == {TransportError, 200, 404, 500}

\* The timeout do computes for a request with option timeout optTimeout.
RequestTimeout(c, optTimeout) ==
    IF optTimeout > 0 THEN optTimeout
    ELSE IF c.Timeout > 0 THEN c.Timeout
    ELSE DefaultTimeout

\* getHTTPClient(timeout): the cached http.Client, created with the given
\* timeout on the first call; httpClient is <<>> for nil.
getHTTPClient(c, timeout) ==
    IF c.httpClient = <<>> THEN [c EXCEPT !.httpClient = <<timeout>>] ELSE c

\* A retry loop that also retries a client error (4xx).
RECURSIVE RetryLoop_RetryClientErrors(_, _, _)
RetryLoop_RetryClientErrors(outs, retryCount, i) ==
    IF outs[i] # TransportError /\ outs[i] < 400 THEN SubSeq(outs, 1, i)
    ELSE IF i < retryCount THEN RetryLoop_RetryClientErrors(outs, retryCount, i + 1)
    ELSE SubSeq(outs, 1, i)

\* The retry loop of do over the attempts outs would end with, from
\* attempt i (1-based): the attempts made.
RECURSIVE RetryLoop(_, _, _)
RetryLoop(outs, retryCount, i) ==
    IF outs[i] # TransportError /\ outs[i] < 500 THEN SubSeq(outs, 1, i)
    ELSE IF i < retryCount THEN RetryLoop(outs, retryCount, i + 1)
    ELSE SubSeq(outs, 1, i)

\* Whether do reads the response body after the loop closed it: the last
\* attempt ended 5xx.
BodyClosed(made) ==
    LET last == made[Len(made)] IN last # TransportError /\ last >= 500

\* The error do returns after the loop: the transport error of the last
\* attempt, a failed read of a body the loop closed (a last attempt that
\* ended 5xx, when reading the closed body fails), the status error of a
\* 5xx or a 4xx, or none.
DoError(made, closedReadFails) ==
    LET last == made[Len(made)] IN
    IF last = TransportError THEN "request failed"
    ELSE IF BodyClosed(made) /\ closedReadFails THEN "read response body failed"
    ELSE IF last >= 500 THEN "server error"
    ELSE IF last >= 400 THEN "client error"
    ELSE "nil"

\* Result.HttpCode as do returns it: the status of the last attempt once the
\* body was read, the zero value on the two earlier returns.
DoHttpCode(made, closedReadFails) ==
    IF DoError(made, closedReadFails) \in {"request failed", "read response body failed"}
    THEN 0
    ELSE made[Len(made)]

InitHTTP ==
    /\ client \in [Timeout : Timeouts, Retry : 0..MaxRetry, httpClient : {<<>>}]
    /\ sent = <<>>
    /\ NoTree /\ NoCompare /\ NoQuery /\ NoProcs /\ NoSlice

\* Client.do for one request: the timeout, the cached http.Client, the
\* retry loop, the result. Whether reading a closed response body fails
\* depends on the body (an empty body reads as EOF), so it is an input of
\* the request; it is free only where the loop closed the body.
Do ==
    /\ Len(sent) < MaxRequests
    /\ \E optTimeout \in Timeouts :
       LET timeout == RequestTimeout(client, optTimeout)
           withClient == getHTTPClient(client, timeout)
           retryCount == IF client.Retry <= 0 THEN 1 ELSE client.Retry
       IN  \E outs \in [1..retryCount -> Attempts], closedReadFails \in BOOLEAN :
           LET made == RetryLoop(outs, retryCount, 1) IN
           /\ BodyClosed(made) \/ closedReadFails
           /\ client' = withClient
           /\ sent' = Append(sent, [optTimeout |-> optTimeout,
                                    timeout |-> timeout,
                                    effective |-> withClient.httpClient[1],
                                    attempts |-> made,
                                    closedReadFails |-> closedReadFails,
                                    err |-> DoError(made, closedReadFails),
                                    code |-> DoHttpCode(made, closedReadFails)])
    /\ UNCHANGED <<treeVars, cmpVars, queryVars, procs, sliceVars>>

NextHTTP == Do

SpecHTTP == InitHTTP /\ [][NextHTTP]_vars

\* ------------------------------------------------------- comparator runs
ComponentNames == {"ID", "Name", "Order"}
Names == UNION {[1..n -> 1..2] : n \in 0..MaxNameLen}
\* Records with the accessors the built-in comparators read: GetID (the ID
\* field, here key), GetName, GetOrder.
ComparedNodes == [key : 0..MaxField, name : Names, order : (0 - MaxField)..MaxField]

InitCompare ==
    /\ nodes = <<>>
    /\ children = <<>>
    /\ orphanStrategy = IgnoreOrphans
    /\ comparator = "nil"
    /\ roots = <<>>
    /\ errCalls = <<>>
    /\ builds = 0
    /\ composite \in UNION {[1..n -> ComponentNames] : n \in 0..MaxComps}
    /\ operands \in ComparedNodes \X ComparedNodes
    /\ cmpResult = <<>>
    /\ NoQuery /\ NoProcs /\ NoSlice /\ NoClient

\* c.Compare(a, b) on a CompositeComparator c
CompareCall ==
    /\ cmpResult = <<>>
    /\ cmpResult' = <<CompositeCompare(composite, operands[1], operands[2])>>
    /\ UNCHANGED <<treeVars, composite, operands, queryVars, procs, sliceVars, httpVars>>

NextCompare == CompareCall

SpecCompare == InitCompare /\ [][NextCompare]_vars

\* ------------------------------------------------------------------ C11
\* The children lists of the records of a list, concatenated in order.
RECURSIVE ChildrenOfAll(_)
ChildrenOfAll(list) ==
    IF list = <<>> THEN <<>> ELSE children[Head(list)] \o ChildrenOfAll(Tail(list))

\* C11: the mapping GetNodesByLevel returns for the forest of a build has
\* the roots, in order, as level 0; has as level n >= 1 the children lists of
\* the records of level n-1, concatenated in order; holds a level exactly
\* when that level has a record; and is empty when the forest is empty.
C11_LevelsAreGenerations ==
    levels # <<>> =>
        LET m == levels[1] IN
        /\ (roots = <<>>) <=> (DOMAIN m = {})
        /\ roots # <<>> => (0 \in DOMAIN m /\ m[0] = roots)
        /\ \A n \in DOMAIN m :
            /\ n \in Nat
            /\ m[n] # <<>>
            /\ n >= 1 => ((n - 1) \in DOMAIN m /\ m[n] = ChildrenOfAll(m[n - 1]))
            /\ ChildrenOfAll(m[n]) # <<>> => (n + 1) \in DOMAIN m

\* Two roots with children each, and a record two levels below a root.
C11_Witness ==
    /\ levels # <<>>
    /\ Len(roots) >= 2
    /\ \A k \in DOMAIN roots : children[roots[k]] # <<>>
    /\ 2 \in DOMAIN levels[1]

\* ------------------------------------------------------------------ C12
\* The input of TestDeepTree: five records, each the child of the one
\* listed before it, the first a root.
DeepTree ==
    /\ Len(nodes) = 5
    /\ \A i \in 1..5 : nodes[i] = [key |-> i, parentKey |-> i - 1, isRoot |-> i = 1]

\* C12: what GetMaxLevel returns for the forest of a build is the highest
\* level of GetNodesByLevel's mapping for that forest, and is -1 exactly
\* when the forest is empty; for the five-record chain it is 4, with one
\* record on each of the levels 0..4.
C12_MaxLevelIsLastLevel ==
    maxLevel # <<>> =>
        LET m == GetNodesByLevel(children, roots)
            d == maxLevel[1]
        IN  /\ (d = 0 - 1) <=> (roots = <<>>)
            /\ roots # <<>> => (d \in DOMAIN m /\ \A l \in DOMAIN m : l <= d)
            /\ DeepTree => (d = 4 /\ DOMAIN m = 0..4 /\ \A l \in 0..4 : Len(m[l]) = 1)

\* The five-record chain, built and measured.
C12_Witness == maxLevel # <<>> /\ DeepTree /\ maxLevel[1] = 4

\* ------------------------------------------------------------------ C13
\* The sibling groups of the forest: the roots and the children list of
\* every record of the forest.
SiblingGroups == {roots} \cup {children[n] : n \in Forest}

\* The configured comparator orders no two siblings of the forest as equal.
NoSiblingTies ==
    \A g \in SiblingGroups : \A a, b \in DOMAIN g :
        a # b => Compare(comparator, nodes[g[a]], nodes[g[b]]) # 0

\* C13: a second Build on the record instances of a first one, nothing
\* changed in between, returns the same roots in the same order and, on
\* every record of the forest, the same children list; for every input
\* order and policy, without a comparator or with one that has no ties
\* among siblings.
C13_SecondBuildSameForest ==
    [][(builds = 1 /\ builds' = 2 /\ (comparator = "nil" \/ NoSiblingTies))
        => (roots' = roots /\ \A n \in Forest : children'[n] = children[n])]_vars

\* A second Build returned a forest in which a record has two children,
\* the two the first call had left on it.
C13_Witness ==
    /\ builds = 2
    /\ \E n \in Forest : Len(children[n]) = 2

\* ------------------------------------------------------------------ C14
\* The input of TestTreeBuilder_DuplicateKeys: a root with key 1, then two
\* children of it that share key 2.
DuplicateKeys ==
    nodes = <<[key |-> 1, parentKey |-> 0, isRoot |-> TRUE],
              [key |-> 2, parentKey |-> 1, isRoot |-> FALSE],
              [key |-> 2, parentKey |-> 1, isRoot |-> FALSE]>>

\* The record at position i is followed by a record with the same key.
Overridden(i) == \E j \in Positions : j > i /\ nodes[j].key = nodes[i].key

\* C14: of two records with one key the later overrides the earlier in the
\* built tree: after Build on the test's input the root has one child, the
\* last duplicate; and no overridden record is in a forest.
C14_LaterDuplicateOverrides ==
    Built =>
        /\ DuplicateKeys => children[1] = <<3>>
        /\ \A i \in Positions : Overridden(i) => i \notin Forest

\* ------------------------------------------------------------------ C15
\* C15: a BuildWithMap call returns a forest that Build returns on the same
\* records, and an index with one entry for every key of the input, the key
\* of a dropped orphan included, each mapped to the last input record with
\* that key; on an empty input both are empty.
C15_BuildWithMapIndex ==
    [][(builds' = builds + 1 /\ keyIndex' # <<>>) =>
        /\ \E r \in BuildResults(nodes, orphanStrategy, comparator, children) :
               roots' = r.roots /\ children' = r.children /\ errCalls' = r.calls
        /\ DOMAIN keyIndex'[1] = KeysPresent
        /\ \A k \in KeysPresent :
               /\ keyIndex'[1][k] \in Positions
               /\ nodes[keyIndex'[1][k]].key = k
               /\ \A j \in Positions : nodes[j].key = k => j <= keyIndex'[1][k]
        /\ nodes = <<>> => (roots' = <<>> /\ DOMAIN keyIndex'[1] = {})]_vars

\* BuildWithMap returned, on an input with a duplicated key and an orphan
\* that the Ignore policy dropped.
C15_Witness ==
    /\ keyIndex # <<>>
    /\ ~UniqueKeys
    /\ orphanStrategy = IgnoreOrphans
    /\ \E i \in Orphans : nodes[i].key \in DOMAIN keyIndex[1] /\ i \notin Forest

\* ------------------------------------------------------------------ C16
\* No record of the forest is reachable from its own children.
ForestAcyclic ==
    \A n \in Forest : n \notin ReachFrom(children, Range(children[n]), {})

\* The input is malformed in one of the four ways: two records whose
\* parent links form a cycle, a non-root record that is its own parent, a
\* duplicated key, a missing parent.
HasCycle ==
    \E i, j \in Positions :
        /\ i # j /\ IsResolved(i) /\ IsResolved(j)
        /\ ParentOf(i) = j /\ ParentOf(j) = i
HasSelfParent == \E i \in Positions : ~nodes[i].isRoot /\ nodes[i].parentKey = nodes[i].key
Malformed == HasCycle \/ HasSelfParent \/ ~UniqueKeys \/ Orphans # {}

\* C16: on every input, malformed ones included, Build returns a result;
\* the forest a build returned has no cycle below its roots, and
\* GetNodesByLevel and GetMaxLevel return on it, with fewer levels than
\* there are records.
C16_BuildAndQueriesReturn ==
    /\ builds < MaxBuilds =>
           BuildResults(nodes, orphanStrategy, comparator, children) # {}
    /\ Built =>
           /\ ForestAcyclic
           /\ DOMAIN GetNodesByLevel(children, roots) \subseteq 0..(Len(nodes) - 1)
           /\ GetMaxLevel(children, roots) < Len(nodes)

\* Both queries returned on the sorted forest built from an input that has
\* a cycle of two records and a record that is its own parent, next to a
\* root with a child.
C16_Witness ==
    /\ levels # <<>> /\ maxLevel # <<>>
    /\ comparator = "ID"
    /\ HasCycle /\ HasSelfParent
    /\ \E n \in Forest : children[n] # <<>>

\* ------------------------------------------------------------------ C17
\* The input of a call as a list of records, and what Build returns for it
\* when no other call runs: positions of that list, handed back as
\* positions of the heap.
View(inp) == [k \in DOMAIN inp |-> nodes[inp[k]]]
AloneResults(inp) ==
    BuildResults(View(inp), orphanStrategy, comparator, [k \in DOMAIN inp |-> <<>>])
OnHeap(inp, list) == [j \in DOMAIN list |-> inp[list[j]]]

\* Call p returned what it returns when run alone: the roots, the handler
\* invocations, and the children list of each of its records.
SameAsAlone(p) ==
    LET inp == procs[p].input
        got == procs[p].ret[1]
    IN  \E r \in AloneResults(inp) :
            /\ got.roots = OnHeap(inp, r.roots)
            /\ got.calls = r.calls
            /\ \A k \in DOMAIN inp : got.children[inp[k]] = OnHeap(inp, r.children[k])

\* C17: of two Build calls on one builder over disjoint record sets, each
\* returns, however their steps interleave, the forest and the handler
\* invocations it produces when run alone.
C17_DisjointCallsAsAlone ==
    \A p \in Procs : procs[p].ret # <<>> => SameAsAlone(p)

\* Call 1 returned a root with a child while call 2, on records with the
\* same keys, is between its GetChildren and its SetChildren.
C17_Witness ==
    /\ procs[1].ret # <<>>
    /\ \E n \in Range(procs[1].ret[1].roots) : procs[1].ret[1].children[n] # <<>>
    /\ procs[2].pc = "set"
    /\ {nodes[i].key : i \in Range(procs[1].input)}
           = {nodes[i].key : i \in Range(procs[2].input)}

\* ------------------------------------------------------------------ C18
\* What a single Build returns on the records both calls are handed.
SingleResults ==
    BuildResults(nodes, orphanStrategy, comparator, [i \in DOMAIN nodes |-> <<>>])

\* C18: what two Build calls on the same record instances can get wrong is
\* confined to the children lists: each call returns the roots and makes
\* the handler invocations of a single Build, and a children list it
\* returns holds only records whose parent key resolves to the list's
\* owner, possibly fewer or more often than a single Build links them.
C18_RaceConfinedToChildren ==
    \A p \in Procs : procs[p].ret # <<>> =>
        LET got == procs[p].ret[1] IN
        /\ \E r \in SingleResults : got.roots = r.roots /\ got.calls = r.calls
        /\ \A n \in Positions : \A c \in Range(got.children[n]) :
               IsResolved(c) /\ ParentOf(c) = n

\* A call returned a forest in which a record lacks a child that a single
\* Build links to it: a lost child.
C18_Witness ==
    \E p \in Procs :
        /\ procs[p].ret # <<>>
        /\ \A r \in SingleResults :
               \E n \in ReachFrom(r.children, Range(r.roots), {}) :
                   \E c \in Range(r.children[n]) :
                       c \notin Range(procs[p].ret[1].children[n])

\* ------------------------------------------------------------------ C19
\* The groups of a list, concatenated in order.
RECURSIVE Concat(_)
Concat(list) == IF list = <<>> THEN <<>> ELSE Head(list) \o Concat(Tail(list))

\* A returned list of groups splits the slice: concatenated it is the
\* slice, every group but the last has groupSize elements, the last has
\* between 1 and groupSize, and there is no group for an empty slice.
Splits(r) ==
    /\ r.kind = "list"
    /\ Concat(r.list) = slice
    /\ \A j \in DOMAIN r.list :
           IF j < Len(r.list)
           THEN Len(r.list[j]) = groupSize
           ELSE Len(r.list[j]) >= 1 /\ Len(r.list[j]) <= groupSize
    /\ slice = <<>> => r.list = <<>>

\* C19: SliceGroup returns nil when groupSize <= 0 and otherwise a list of
\* groups that splits the slice.
C19_SliceGroupSplits ==
    groups # <<>> =>
        IF groupSize <= 0 THEN groups[1].kind = "nil" ELSE Splits(groups[1])

\* The same, for the group sizes at which len(slice) + groupSize - 1 is
\* an int.
SliceGroupSplitsBelowOverflow ==
    (groups # <<>> /\ Len(slice) + groupSize - 1 <= MaxInt) =>
        IF groupSize <= 0 THEN groups[1].kind = "nil" ELSE Splits(groups[1])

\* ------------------------------------------------------------------ C20
Min(a, b) == IF a <= b THEN a ELSE b

\* C20: every request of a client whose Timeout is positive, made with a
\* positive option timeout, runs under the smaller of the two; the first
\* request and every later one.
C20_EffectiveTimeoutIsMin ==
    \A j \in DOMAIN sent :
        (client.Timeout > 0 /\ sent[j].optTimeout > 0) =>
            sent[j].effective = Min(client.Timeout, sent[j].optTimeout)

\* Every request of a client runs under the timeout do computed for the
\* client's first request: the option timeout of that request if positive,
\* else Client.Timeout if positive, else the default.
EffectiveTimeoutIsFirstRequests ==
    \A j \in DOMAIN sent :
        sent[j].effective = RequestTimeout(client, sent[1].optTimeout)

\* ------------------------------------------------------------------ C21
\* C21: after a Build, a record whose IsRoot is true is in the root
\* sequence, once, and in no children list, also when its parent key is a
\* key of the input; a record whose IsRoot is false is in the root sequence
\* only as an orphan under the Collect policy.
C21_RootsByIsRoot ==
    Built =>
        \A i \in Positions :
            IF nodes[i].isRoot
            THEN /\ Count(roots, i) = 1
                 /\ \A n \in Positions : i \notin Range(children[n])
            ELSE i \in Range(roots) =>
                     (IsOrphan(i) /\ orphanStrategy = CollectOrphans)

\* A built input with a root whose parent key is the key of another record,
\* and a non-root record whose parent key is the zero value.
C21_Witness ==
    /\ Built
    /\ \E i, j \in Positions :
           i # j /\ nodes[i].isRoot /\ nodes[i].parentKey = nodes[j].key
    /\ \E i \in Positions : ~nodes[i].isRoot /\ nodes[i].parentKey = 0

\* ------------------------------------------------------------------ C22
\* C22: after a Build, the children list of a record that a later record
\* with the same key follows holds no record whose parent key is that key,
\* wherever in the input such a record stands; a record linked under the
\* key is in the list of the last record with the key only.
C22_LookupResolvesToLast ==
    Built =>
        \A n \in Positions : \A c \in Range(children[n]) :
            nodes[c].parentKey = nodes[n].key => ~Overridden(n)

\* A built input in which a child of key k stands between two records with
\* key k, and another child of k is linked under the last of them.
C22_Witness ==
    /\ Built
    /\ \E a, c, b \in Positions :
           /\ a < c /\ c < b
           /\ nodes[a].key = nodes[b].key
           /\ ~nodes[c].isRoot /\ nodes[c].parentKey = nodes[a].key
           /\ children[a] = <<>>
           /\ b \in Range(children[b])

\* ------------------------------------------------------------------ C23
\* The parent chain of record i leads to record o: i is o, or a non-root
\* record whose parent's chain leads to o. With listed, each record on the
\* way stands in the input after its parent.
RECURSIVE LeadsTo(_, _, _, _)
LeadsTo(i, o, listed, fuel) ==
    IF i = o THEN TRUE
    ELSE IF fuel = 0 \/ ~IsResolved(i) THEN FALSE
    ELSE /\ listed => ParentOf(i) < i
         /\ LeadsTo(ParentOf(i), o, listed, fuel - 1)

\* C23: under Collect, with one record per key, every record whose parent
\* chain leads to a promoted orphan is in the forest below that orphan,
\* wherever it stands in the input.
C23_CollectSubtreesSurface ==
    (Built /\ orphanStrategy = CollectOrphans /\ UniqueKeys) =>
        \A o \in Orphans : \A i \in Positions :
            LeadsTo(i, o, FALSE, Len(nodes)) =>
                (o \in Range(roots) /\ i \in ReachFrom(children, {o}, {}))

\* The same for the records that stand, each and every one on the way to
\* the orphan, after their parent in the input.
CollectSubtreesSurfaceParentFirst ==
    (Built /\ orphanStrategy = CollectOrphans /\ UniqueKeys) =>
        \A o \in Orphans : \A i \in Positions :
            LeadsTo(i, o, TRUE, Len(nodes)) =>
                (o \in Range(roots) /\ i \in ReachFrom(children, {o}, {}))

\* ------------------------------------------------------------------ C24
\* C24: a GetNodesByLevel or GetMaxLevel call leaves the records, the root
\* sequence and every children list as they were, and a result an earlier
\* call returned for the forest is the result a call returns now.
C24_QueriesReadOnly ==
    [][builds' = builds =>
        /\ nodes' = nodes /\ roots' = roots /\ children' = children
        /\ levels' # <<>> => levels'[1] = GetNodesByLevel(children', roots')
        /\ maxLevel' # <<>> => maxLevel'[1] = GetMaxLevel(children', roots')
        /\ levels # <<>> => levels' = levels
        /\ maxLevel # <<>> => maxLevel' = maxLevel]_vars

\* Both queries returned on a forest with a record two levels below a root.
C24_Witness ==
    /\ levels # <<>> /\ maxLevel # <<>>
    /\ maxLevel[1] >= 2
    /\ 2 \in DOMAIN levels[1]

\* ------------------------------------------------------------------ C25
\* C25: the comparison a composite of the built-in comparators makes, a
\* single built-in one included, returns -1, 0 or 1, returns 0 for a
\* record and itself, returns the opposite for the operands exchanged, and
\* is transitive over every third record.
C25_ThreeWayPreorder ==
    cmpResult # <<>> =>
        LET a == operands[1]
            b == operands[2]
            r == cmpResult[1]
        IN  /\ r \in {0 - 1, 0, 1}
            /\ CompositeCompare(composite, a, a) = 0
            /\ r = 0 - CompositeCompare(composite, b, a)
            /\ \A c \in ComparedNodes :
                   (r <= 0 /\ CompositeCompare(composite, b, c) <= 0)
                       => CompositeCompare(composite, a, c) <= 0

\* An order comparison returned -1 for two records that the comparator by
\* id, placed after it, orders the other way.
C25_Witness ==
    /\ cmpResult = <<0 - 1>>
    /\ composite = <<"Order", "ID">>
    /\ operands[1].key > operands[2].key
    /\ operands[1].order = 0 - 1 /\ operands[2].order = 1

\* ---------------------------------------------------------------------
\* The attempts do may make, and the outcomes after which it tries again.
MaxAttempts == IF client.Retry <= 0 THEN 1 ELSE client.Retry

Retryable(out) == out = TransportError \/ out >= 500

\* C26: the retry loop of do sends at least one and at most max(Retry, 1)
\* requests; every attempt before the last one made ended in a transport
\* error or a 5xx status (so a 2xx or 4xx response is never retried), and
\* the loop stops short of max(Retry, 1) attempts only at an attempt that
\* got a response with status below 500.
C26_RetryLoopBounds ==
    \A j \in 1..Len(sent) :
        LET made == sent[j].attempts IN
        /\ Len(made) >= 1
        /\ Len(made) <= MaxAttempts
        /\ \A k \in 1..(Len(made) - 1) : Retryable(made[k])
        /\ Len(made) < MaxAttempts => ~Retryable(made[Len(made)])

\* A client with Retry = 2 whose first attempt ended 5xx and whose second,
\* last attempt ended 4xx, and a request that stopped at a first 4xx.
C26_Witness ==
    /\ client.Retry = 2
    /\ \E j \in 1..Len(sent) : sent[j].attempts = <<500, 404>>
    /\ \E j \in 1..Len(sent) : sent[j].attempts = <<404>>

\* ---------------------------------------------------------------------
\* C30: when the last attempt of do ended with a 5xx response and reading
\* a closed response body fails, do returns the status error of the server
\* ("server error") and a Result whose HttpCode is that status.
C30_ServerErrorReported ==
    \A j \in 1..Len(sent) :
        (BodyClosed(sent[j].attempts) /\ sent[j].closedReadFails) =>
            /\ sent[j].err = "server error"
            /\ sent[j].code = sent[j].attempts[Len(sent[j].attempts)]

\* What do returns in that case: the error of the failed read, and a Result
\* whose HttpCode was never assigned.
ServerErrorLostInFailedRead ==
    \A j \in 1..Len(sent) :
        (BodyClosed(sent[j].attempts) /\ sent[j].closedReadFails) =>
            /\ sent[j].err = "read response body failed"
            /\ sent[j].code = 0

\* The status error of a 5xx is returned only where the closed body still
\* reads.
ServerErrorOnlyWhenClosedBodyReads ==
    \A j \in 1..Len(sent) :
        sent[j].err = "server error" =>
            /\ ~sent[j].closedReadFails
            /\ sent[j].code = sent[j].attempts[Len(sent[j].attempts)]

\* ---------------------------------------------------------------------
\* The result of the last Build is a result of tree.TreeBuilder.Build.
SameAsTreeBuild ==
    \E t \in TreeBuildResults(nodes, comparator) :
        /\ roots = t.roots
        /\ \A n \in Forest : children[n] = t.children[n]
        /\ errCalls = t.calls

\* C27: under the Ignore policy, what Build returns is what the older
\* tree.TreeBuilder.Build returns for the same input and comparator: the
\* same roots in the same order, the same children in the same order on
\* every record of the forest, and the same handler invocations in the same
\* order.
C27_BuildersAgree ==
    (Built /\ orphanStrategy = IgnoreOrphans) => SameAsTreeBuild

\* A record whose parent key is in the index stands before its parent in the input.
ChildBeforeParent ==
    \E i \in Positions : IsResolved(i) /\ i < ParentOf(i)

\* With every resolved record listed after its parent the two builders
\* agree, on a first and on a repeated call.
BuildersAgreeParentFirst ==
    (Built /\ orphanStrategy = IgnoreOrphans /\ ~ChildBeforeParent) => SameAsTreeBuild

\* ---------------------------------------------------------------------
\* s and t hold the same records, each as often.
IsPermutation(s, t) ==
    /\ Len(s) = Len(t)
    /\ \A x \in Range(s) \cup Range(t) : Count(s, x) = Count(t, x)

\* C28: a Build with a comparator returns what the Build without one
\* returns on the same input and the same records, reordered: the root
\* sequence and the children list of every record are permutations of the
\* unsorted ones, the handler invocations are the same, and the children
\* list stored on every record of the forest is in comparator order.
C28_SortOnlyReorders ==
    [][(builds' = builds + 1 /\ comparator # "nil") =>
          \E u \in BuildResults(nodes, orphanStrategy, "nil", children) :
              /\ IsPermutation(roots', u.roots)
              /\ \A n \in Positions : IsPermutation(children'[n], u.children[n])
              /\ errCalls' = u.calls
              /\ \A n \in ReachFrom(children', Range(roots'), {}) :
                     SortedBy(comparator, children'[n])]_vars

\* Two roots and the two children of one of them, each pair listed in the
\* input in the opposite of its comparator order and returned reordered.
C28_Witness ==
    /\ Built /\ comparator = "ID"
    /\ Len(roots) = 2 /\ roots[1] > roots[2]
    /\ \E n \in Range(roots) :
          /\ Len(children[n]) = 2
          /\ children[n][1] > children[n][2]
          /\ nodes[children[n][1]].key < nodes[children[n][2]].key

\* ---------------------------------------------------------------------
\* The children list of record i holds no record twice, and holds only
\* records that the key index resolves to i.
CleanChildren(i) ==
    /\ \A c \in Range(children[i]) : Count(children[i], c) = 1
    /\ \A c \in Range(children[i]) : IsResolved(c) /\ ParentOf(c) = i

\* C29: after any number of consecutive Build or BuildWithMap calls on the
\* same records, the children list of every input record, a record dropped
\* as an orphan included, holds no child twice and no child that is left
\* from an earlier call.
C29_NoStaleChildren ==
    Built => \A i \in Positions : CleanChildren(i)

\* The records whose children list Build empties when it visits them: the
\* roots, the records whose parent key is in the index, and under Collect
\* the orphans. Their lists are clean after every call.
ResetOnVisit(i) ==
    nodes[i].isRoot \/ IsResolved(i) \/ orphanStrategy = CollectOrphans

VisitedRecordsClean ==
    Built => \A i \in Positions : ResetOnVisit(i) => CleanChildren(i)

\* The first call leaves every list clean.
FirstCallClean ==
    builds = 1 => \A i \in Positions : CleanChildren(i)

====
